---------------------------- MODULE Spec2Model ----------------------------
(***************************************************************************)
(* Model of the decision layer of AI-trader-altcoin:                       *)
(*   - RiskManager            (src/src/risk/risk_management.py)            *)
(*   - generate_trading_signals   (src/src/signals/technical_signal.py)    *)
(*   - generate_sentiment_signals (src/src/signals/sentiment_signal.py)    *)
(*                                                                         *)
(* Numbers.  The Python code works on floats.  Money amounts and prices    *)
(* are modelled as integers, the four configured rates and the sentiment   *)
(* scores as integer hundredths (0.05 is 5), and every quotient the code   *)
(* forms is kept as an exact fraction and compared by cross                *)
(* multiplication with the sign of the divisor taken into account.  For    *)
(* the integer-valued inputs used here IEEE division is correctly rounded  *)
(* and monotone, so the comparisons of the code agree with the exact ones. *)
(* A float that is not-a-number is the record NaN; every ordered           *)
(* comparison with it is FALSE, as in IEEE 754.                            *)
(***************************************************************************)
EXTENDS Integers, Sequences, FiniteSets, TLC

VARIABLES
    \* ---- RiskManager fields (risk_management.py:31-42)
    initial_capital, current_capital,
    risk_per_trade, max_daily_drawdown, stop_loss_rate, take_profit_rate,
    daily_pl, daily_limit_reached,
    \* ---- the caller's view of the last RiskManager call
    call,        \* the call: its name and arguments
    pre,         \* current_capital, daily_pl, daily_limit_reached when it began
    ret,         \* what it returned, or the exception it raised
    pnl_passed,  \* sum of every profit_or_loss passed to update_daily_pl
    n_updates,   \* number of update_daily_pl calls made
    day_start_capital,  \* current_capital at construction or the last reset
    \* ---- generate_trading_signals (technical_signal.py:111-144)
    tech_i,        \* number of rows the loop has read
    tech_row,      \* <<>> or <<the row read last>>
    tech_signals,  \* the list signals
    \* ---- generate_sentiment_signals (sentiment_signal.py:100-116)
    sent_threshold,  \* the argument threshold, in hundredths
    sent_row,        \* <<>> or <<the row read last>>
    sent_signals     \* the list signals

risk_vars == <<initial_capital, current_capital, risk_per_trade,
               max_daily_drawdown, stop_loss_rate, take_profit_rate,
               daily_pl, daily_limit_reached, call, pre, ret, pnl_passed,
               n_updates, day_start_capital>>
tech_vars == <<tech_i, tech_row, tech_signals>>
sent_vars == <<sent_threshold, sent_row, sent_signals>>
vars == <<risk_vars, tech_vars, sent_vars>>

(***************************************************************************)
(* Bounds of the model.                                                    *)
(***************************************************************************)
MaxUpdates == 3
MaxRows == 2

(***************************************************************************)
(* Exact fractions.                                                        *)
(***************************************************************************)
Abs(x) == IF x < 0 THEN -x ELSE x

RECURSIVE GCD(_, _)
GCD(a, b) == IF b = 0 THEN a ELSE GCD(b, a % b)

\* the fraction n/d (d # 0) in lowest terms with a positive denominator
Frac(n, d) ==
    LET g == GCD(Abs(n), Abs(d))
        s == IF d < 0 THEN -1 ELSE 1
    IN  <<(s * n) \div g, (s * d) \div g>>

\* a/b >= c/d  and  a/b <= c/d, for b # 0 and d > 0
QuotGE(a, b, c, d) == IF b > 0 THEN a * d >= c * b ELSE a * d <= c * b
QuotLE(a, b, c, d) == IF b > 0 THEN a * d <= c * b ELSE a * d >= c * b

(***************************************************************************)
(* What a call gives back to its caller.                                   *)
(***************************************************************************)
Returned(kind, num, den, flag, text) ==
    [exc |-> "", kind |-> kind, num |-> num, den |-> den, flag |-> flag,
     text |-> text]
RetNone == Returned("None", 0, 1, FALSE, "")
RetFloat(q) == Returned("float", q[1], q[2], FALSE, "")
RetBool(b) == Returned("bool", 0, 1, b, "")
RetStr(s) == Returned("str", 0, 1, FALSE, s)
Raised(e) ==
    [exc |-> e, kind |-> "raise", num |-> 0, den |-> 1, flag |-> FALSE,
     text |-> ""]

Snapshot == [current_capital |-> current_capital, daily_pl |-> daily_pl,
             daily_limit_reached |-> daily_limit_reached]

Call(name, a, b) == [name |-> name, a |-> a, b |-> b]

(***************************************************************************)
(* Inputs.  Rates are hundredths.                                          *)
(***************************************************************************)
\* constructor arguments: the defaults of __init__ (also those of the demo),
\* a configuration whose stop-loss and take-profit conditions overlap
\* (the rates are not validated), and one with a zero stop-loss rate
Configs ==
    { [total_capital |-> 100000, risk_per_trade |-> 1,
       max_daily_drawdown |-> 5, stop_loss_rate |-> 2, take_profit_rate |-> 5],
      [total_capital |-> 100000, risk_per_trade |-> 1,
       max_daily_drawdown |-> 5, stop_loss_rate |-> -2, take_profit_rate |-> 1],
      [total_capital |-> 100000, risk_per_trade |-> 2,
       max_daily_drawdown |-> 5, stop_loss_rate |-> 0, take_profit_rate |-> 5] }

PnLs == {-100000, -10000, -5001, -5000, -4800, 5000}
EntryPrices == {-1, 0, 100}
CurrentPrices == {97, 98, 99, 101, 102, 105, 106}

(***************************************************************************)
(* RiskManager                                                             *)
(***************************************************************************)
RiskInit ==
    \E c \in Configs :
        /\ initial_capital = c.total_capital
        /\ current_capital = c.total_capital
        /\ risk_per_trade = c.risk_per_trade
        /\ max_daily_drawdown = c.max_daily_drawdown
        /\ stop_loss_rate = c.stop_loss_rate
        /\ take_profit_rate = c.take_profit_rate
        /\ daily_pl = 0
        /\ daily_limit_reached = FALSE
        /\ call = Call("__init__", 0, 0)
        /\ pre = [current_capital |-> c.total_capital, daily_pl |-> 0,
                  daily_limit_reached |-> FALSE]
        /\ ret = RetNone
        /\ pnl_passed = 0
        /\ n_updates = 0
        /\ day_start_capital = c.total_capital

\* no method assigns the constructor's arguments, and none touches the
\* signal generators
config_unchanged ==
    UNCHANGED <<initial_capital, risk_per_trade, max_daily_drawdown,
                stop_loss_rate, take_profit_rate, tech_vars, sent_vars>>

\* a reset that also puts the capital back to its initial value
reset_daily_pl_restores_capital ==
    /\ call' = Call("reset_daily_pl", 0, 0)
    /\ pre' = Snapshot
    /\ daily_pl' = 0
    /\ daily_limit_reached' = FALSE
    /\ current_capital' = initial_capital
    /\ day_start_capital' = initial_capital
    /\ ret' = RetNone
    /\ config_unchanged
    /\ UNCHANGED <<pnl_passed, n_updates>>

\* a reset that forgets the flag
reset_daily_pl_keeps_flag ==
    /\ call' = Call("reset_daily_pl", 0, 0)
    /\ pre' = Snapshot
    /\ daily_pl' = 0
    /\ ret' = RetNone
    /\ config_unchanged
    /\ day_start_capital' = current_capital
    /\ UNCHANGED <<daily_limit_reached, current_capital, pnl_passed, n_updates>>

reset_daily_pl ==
    /\ call' = Call("reset_daily_pl", 0, 0)
    /\ pre' = Snapshot
    /\ daily_pl' = 0
    /\ daily_limit_reached' = FALSE
    /\ ret' = RetNone
    /\ config_unchanged
    /\ day_start_capital' = current_capital
    /\ UNCHANGED <<current_capital, pnl_passed, n_updates>>

\* line 56 and 58: -daily_pl / current_capital >= max_daily_drawdown,
\* for a divisor that is not zero
drawdown_limit_hit(pl, capital, limit) == QuotGE(-pl, capital, limit, 100)

\* a flag recomputed on every update instead of only ever set
limit_flag_recomputed(old, pl, capital, limit) ==
    drawdown_limit_hit(pl, capital, limit)

\* the flag after line 58-59
limit_flag(old, pl, capital, limit) ==
    IF drawdown_limit_hit(pl, capital, limit) THEN TRUE ELSE old

\* an update that moves line 63 before line 56: the ratio is taken against
\* the capital that already includes the profit or loss
update_daily_pl_capital_first(profit_or_loss) ==
    /\ n_updates < MaxUpdates
    /\ call' = Call("update_daily_pl", profit_or_loss, 0)
    /\ pre' = Snapshot
    /\ pnl_passed' = pnl_passed + profit_or_loss
    /\ n_updates' = n_updates + 1
    /\ UNCHANGED day_start_capital
    /\ daily_pl' = daily_pl + profit_or_loss
    /\ current_capital' = current_capital + profit_or_loss
    /\ IF current_capital' = 0
       THEN /\ ret' = Raised("ZeroDivisionError")
            /\ UNCHANGED daily_limit_reached
       ELSE /\ daily_limit_reached' =
                  limit_flag(daily_limit_reached, daily_pl', current_capital',
                             max_daily_drawdown)
            /\ ret' = RetNone
    /\ config_unchanged

update_daily_pl(profit_or_loss) ==
    /\ n_updates < MaxUpdates
    /\ call' = Call("update_daily_pl", profit_or_loss, 0)
    /\ pre' = Snapshot
    /\ pnl_passed' = pnl_passed + profit_or_loss
    /\ n_updates' = n_updates + 1
    /\ UNCHANGED day_start_capital
    /\ daily_pl' = daily_pl + profit_or_loss                       \* line 54
    /\ IF current_capital = 0
       THEN \* line 56 divides by zero: the call ends there
            /\ ret' = Raised("ZeroDivisionError")
            /\ UNCHANGED <<daily_limit_reached, current_capital>>
       ELSE /\ daily_limit_reached' =
                  limit_flag(daily_limit_reached, daily_pl', current_capital,
                             max_daily_drawdown)                   \* 56-59
            /\ current_capital' = current_capital + profit_or_loss \* line 63
            /\ ret' = RetNone
    /\ config_unchanged

\* lines 76-89, as a function of the fields it reads
position_size(capital, risk, entry_price, stop) ==
    IF entry_price <= 0
    THEN RetFloat(<<0, 1>>)                                     \* line 76-77
    ELSE IF entry_price * stop = 0
         THEN Raised("ZeroDivisionError")                       \* line 88
         \* max_loss = capital * risk/100, divided by entry_price * stop/100
         ELSE RetFloat(Frac(capital * risk, entry_price * stop))

\* a sizing that reads initial_capital instead of current_capital
compute_position_size_initial_capital(entry_price) ==
    /\ call' = Call("compute_position_size", entry_price, 0)
    /\ pre' = Snapshot
    /\ ret' = position_size(initial_capital, risk_per_trade, entry_price,
                            stop_loss_rate)
    /\ config_unchanged
    /\ UNCHANGED <<current_capital, daily_pl, daily_limit_reached,
                   pnl_passed, n_updates, day_start_capital>>

compute_position_size(entry_price) ==
    /\ call' = Call("compute_position_size", entry_price, 0)
    /\ pre' = Snapshot
    /\ ret' = position_size(current_capital, risk_per_trade, entry_price,
                            stop_loss_rate)
    /\ config_unchanged
    /\ UNCHANGED <<current_capital, daily_pl, daily_limit_reached,
                   pnl_passed, n_updates, day_start_capital>>

\* the two checks of lines 104 and 108 in the other order
stop_loss_take_profit_take_first(entry_price, current_price, stop, take) ==
    IF entry_price <= 0
    THEN RetNone
    ELSE IF QuotGE(current_price - entry_price, entry_price, take, 100)
         THEN RetStr("TAKE_PROFIT")
         ELSE IF QuotLE(current_price - entry_price, entry_price, -stop, 100)
              THEN RetStr("STOP_LOSS")
              ELSE RetNone

\* lines 97-111, as a function of the fields it reads
stop_loss_take_profit(entry_price, current_price, stop, take) ==
    IF entry_price <= 0
    THEN RetNone                                                \* line 97-98
    ELSE IF QuotLE(current_price - entry_price, entry_price, -stop, 100)
         THEN RetStr("STOP_LOSS")                               \* line 104
         ELSE IF QuotGE(current_price - entry_price, entry_price, take, 100)
              THEN RetStr("TAKE_PROFIT")                        \* line 108
              ELSE RetNone                                      \* line 111

check_stop_loss_take_profit(entry_price, current_price) ==
    /\ call' = Call("check_stop_loss_take_profit", entry_price, current_price)
    /\ pre' = Snapshot
    /\ ret' = stop_loss_take_profit(entry_price, current_price,
                                    stop_loss_rate, take_profit_rate)
    /\ config_unchanged
    /\ UNCHANGED <<current_capital, daily_pl, daily_limit_reached,
                   pnl_passed, n_updates, day_start_capital>>

\* line 118
trading_allowed(limit_reached) == ~limit_reached

can_trade ==
    /\ call' = Call("can_trade", 0, 0)
    /\ pre' = Snapshot
    /\ ret' = RetBool(trading_allowed(daily_limit_reached))
    /\ config_unchanged
    /\ UNCHANGED <<current_capital, daily_pl, daily_limit_reached,
                   pnl_passed, n_updates, day_start_capital>>

RiskNext ==
    \/ reset_daily_pl
    \/ \E p \in PnLs : update_daily_pl(p)
    \/ \E e \in EntryPrices : compute_position_size(e)
    \/ \E e \in EntryPrices, c \in CurrentPrices :
           check_stop_loss_take_profit(e, c)
    \/ can_trade

(***************************************************************************)
(* Floats that may be not-a-number.                                        *)
(***************************************************************************)
NaN == [nan |-> TRUE, v |-> 0]
Num(x) == [nan |-> FALSE, v |-> x]
Lt(a, b) == ~a.nan /\ ~b.nan /\ a.v < b.v
Gt(a, b) == ~a.nan /\ ~b.nan /\ a.v > b.v

(***************************************************************************)
(* generate_trading_signals: the loop of lines 111-142.  A row holds the   *)
(* columns the rules read; MACD is read on line 114 and never used.        *)
(***************************************************************************)
RSIs == {NaN, Num(20), Num(30), Num(50), Num(70), Num(80)}
Hists == {NaN, Num(-5), Num(0), Num(5)}
Bands == {<<NaN, NaN>>, <<Num(95), Num(105)>>}
Closes == {Num(90), Num(95), Num(100), Num(105), Num(110)}

TechRows ==
    { [RSI |-> r, MACD_HIST |-> h, BB_LOWER |-> b[1], BB_UPPER |-> b[2],
       close |-> c] : r \in RSIs, h \in Hists, b \in Bands, c \in Closes }

\* lines 123-126
rsi_rule(signal, rsi) ==
    IF Lt(rsi, Num(30)) THEN "BUY"
    ELSE IF Gt(rsi, Num(70)) THEN "SELL" ELSE signal

\* lines 130-134
macd_rule(signal, macd_hist) ==
    IF Gt(macd_hist, Num(0)) THEN "BUY"
    ELSE IF Lt(macd_hist, Num(0)) THEN "SELL" ELSE signal

\* lines 137-140
bollinger_rule(signal, close_price, bb_lower, bb_upper) ==
    IF Lt(close_price, bb_lower) THEN "BUY"
    ELSE IF Gt(close_price, bb_upper) THEN "SELL" ELSE signal

\* the three rules in the opposite order: the RSI rule has the last word
trading_signal_rsi_last(row) ==
    rsi_rule(macd_rule(bollinger_rule("HOLD", row.close, row.BB_LOWER,
                                      row.BB_UPPER),
                       row.MACD_HIST),
             row.RSI)

\* lines 120-140: the signal of one row
trading_signal(row) ==
    bollinger_rule(macd_rule(rsi_rule("HOLD", row.RSI), row.MACD_HIST),
                   row.close, row.BB_LOWER, row.BB_UPPER)

TechInit ==
    /\ tech_i = 0
    /\ tech_row = <<>>
    /\ tech_signals = <<>>

\* line 111: a call begins with an empty list
generate_trading_signals_begin ==
    /\ tech_i' = 0
    /\ tech_row' = <<>>
    /\ tech_signals' = <<>>
    /\ UNCHANGED <<risk_vars, sent_vars>>

\* lines 112-142: one iteration of the loop
generate_trading_signals_row(row) ==
    /\ tech_i < MaxRows
    /\ tech_i' = tech_i + 1
    /\ tech_row' = <<row>>
    /\ tech_signals' = Append(tech_signals, trading_signal(row))
    /\ UNCHANGED <<risk_vars, sent_vars>>

TechNext ==
    \/ generate_trading_signals_begin
    \/ \E row \in TechRows : generate_trading_signals_row(row)

(***************************************************************************)
(* generate_sentiment_signals: the loop of lines 100-114.  Scores and the  *)
(* threshold are hundredths.                                               *)
(***************************************************************************)
Labels == {"POSITIVE", "NEGATIVE", "NEUTRAL"}
Scores == {0, 50, 79, 80, 81, 100}
Thresholds == {50, 80}

SentRows == { [hf_label |-> l, hf_score |-> c] : l \in Labels, c \in Scores }

\* a threshold that qualifies when met, not only when exceeded
sentiment_signal_inclusive(label, score, threshold) ==
    IF label = "POSITIVE" /\ score >= threshold THEN "BUY"
    ELSE IF label = "NEGATIVE" /\ score >= threshold THEN "SELL"
    ELSE "HOLD"

\* lines 106-112: the signal of one row
sentiment_signal(label, score, threshold) ==
    IF label = "POSITIVE" /\ score > threshold THEN "BUY"
    ELSE IF label = "NEGATIVE" /\ score > threshold THEN "SELL"
    ELSE "HOLD"

SentInit ==
    /\ sent_threshold = 80                \* the default of line 70
    /\ sent_row = <<>>
    /\ sent_signals = <<>>

\* lines 67-70 and 100: a call begins with its threshold and an empty list
generate_sentiment_signals_begin(threshold) ==
    /\ sent_threshold' = threshold
    /\ sent_row' = <<>>
    /\ sent_signals' = <<>>
    /\ UNCHANGED <<risk_vars, tech_vars>>

\* lines 101-114: one iteration of the loop
generate_sentiment_signals_row(row) ==
    /\ Len(sent_signals) < MaxRows
    /\ sent_row' = <<row>>
    /\ sent_signals' =
           Append(sent_signals,
                  sentiment_signal(row.hf_label, row.hf_score, sent_threshold))
    /\ UNCHANGED <<sent_threshold, risk_vars, tech_vars>>

SentNext ==
    \/ \E t \in Thresholds : generate_sentiment_signals_begin(t)
    \/ \E row \in SentRows : generate_sentiment_signals_row(row)

Init == RiskInit /\ TechInit /\ SentInit

SpecRisk == Init /\ [][RiskNext]_vars
SpecTech == Init /\ [][TechNext]_vars
SpecSent == Init /\ [][SentNext]_vars

(***************************************************************************)
(* Properties of RiskManager, checked under SpecRisk.                      *)
(***************************************************************************)
IsCall(name) == call.name = name

\* C1: the halt is sticky.  A call other than reset_daily_pl that begins
\* with daily_limit_reached set ends with it set, so can_trade() is false
\* after it (and returns False when it is the call); by induction over the
\* calls this covers every sequence of update_daily_pl,
\* compute_position_size, check_stop_loss_take_profit and can_trade calls
\* after the halt.  Only reset_daily_pl clears the flag.
C1_HaltIsSticky ==
    /\ (pre.daily_limit_reached /\ ~IsCall("reset_daily_pl"))
           => /\ daily_limit_reached
              /\ ~trading_allowed(daily_limit_reached)
              /\ (IsCall("can_trade") => ret = RetBool(FALSE))
    /\ (pre.daily_limit_reached /\ trading_allowed(daily_limit_reached))
           => IsCall("reset_daily_pl")

\* a halted manager took a gain that brings the day's loss under the limit
C1_Witness ==
    /\ IsCall("update_daily_pl")
    /\ pre.daily_limit_reached
    /\ call.a > 0
    /\ pre.current_capital > 0
    /\ -daily_pl * 100 < max_daily_drawdown * pre.current_capital
    /\ daily_limit_reached

\* C2: immediately after reset_daily_pl returns, daily_pl is 0,
\* daily_limit_reached is false and can_trade() is true, whatever the state
\* before the call was.
C2_ResetRestoresTrading ==
    IsCall("reset_daily_pl")
        => /\ daily_pl = 0
           /\ daily_limit_reached = FALSE
           /\ trading_allowed(daily_limit_reached)
           /\ ret.exc = ""

\* reset_daily_pl was called on a halted manager with a loss on the day
C2_Witness ==
    /\ IsCall("reset_daily_pl")
    /\ pre.daily_limit_reached
    /\ pre.daily_pl < 0
    /\ current_capital < initial_capital

C4_ExhaustedCapitalHalts ==
    (IsCall("update_daily_pl") /\ pre.current_capital <= 0)
        => /\ ret.exc = ""
           /\ daily_limit_reached

\* C5: in every reachable state current_capital equals initial_capital plus
\* the sum of all pnl values passed to update_daily_pl since construction.
C5_CapitalIsInitialPlusPnl ==
    current_capital = initial_capital + pnl_passed

\* C6: compute_position_size(entry_price) returns 0 when entry_price <= 0
\* and otherwise the quotient
\* (current_capital * risk_per_trade) / (entry_price * stop_loss_rate) of the
\* capital at call time (the quotient exists when stop_loss_rate # 0); it is
\* 500 for capital 100000, risk 0.01, stop 0.02, price 100; and the flag
\* daily_limit_reached has no part in it.
C6_PositionSize ==
    IsCall("compute_position_size")
        => /\ call.a <= 0
                  => (ret.exc = "" /\ ret.kind = "float" /\ ret.num = 0)
           /\ (call.a > 0 /\ stop_loss_rate # 0)
                  => /\ ret.exc = ""
                     /\ ret.kind = "float"
                     /\ ret.den > 0
                     /\ ret.num * (call.a * stop_loss_rate)
                            = (current_capital * risk_per_trade) * ret.den
           /\ (call.a = 100 /\ current_capital = 100000 /\ risk_per_trade = 1
                   /\ stop_loss_rate = 2)
                  => (ret.num = 500 /\ ret.den = 1)

\* a position was sized while the manager was halted, after a loss
C6_Witness ==
    /\ IsCall("compute_position_size")
    /\ call.a > 0
    /\ daily_limit_reached
    /\ current_capital = 95000
    /\ stop_loss_rate = 2
    /\ ret.num = 475
    /\ ret.den = 1

\* C7: check_stop_loss_take_profit(entry_price, current_price) returns None
\* when entry_price <= 0; otherwise, with
\* change_ratio = (current_price - entry_price) / entry_price, STOP_LOSS if
\* change_ratio <= -stop_loss_rate, else TAKE_PROFIT if
\* change_ratio >= take_profit_rate, else None; both boundaries are
\* inclusive and STOP_LOSS wins when both conditions hold.
C7_StopLossTakeProfit ==
    IsCall("check_stop_loss_take_profit")
        => LET e == call.a
               c == call.b
               stop == (c - e) * 100 <= (-stop_loss_rate) * e
               take == (c - e) * 100 >= take_profit_rate * e
           IN  /\ e <= 0 => ret = RetNone
               /\ e > 0 =>
                      ret = IF stop THEN RetStr("STOP_LOSS")
                            ELSE IF take THEN RetStr("TAKE_PROFIT")
                            ELSE RetNone

\* both conditions hold (stop_loss_rate -0.02, take_profit_rate 0.01, a rise
\* of 1%) and the answer is STOP_LOSS
C7_Witness ==
    /\ IsCall("check_stop_loss_take_profit")
    /\ call.a > 0
    /\ (call.b - call.a) * 100 <= (-stop_loss_rate) * call.a
    /\ (call.b - call.a) * 100 >= take_profit_rate * call.a
    /\ ret = RetStr("STOP_LOSS")

\* C11: the drawdown that update_daily_pl compares with max_daily_drawdown
\* is the day's net loss relative to the capital held at the start of the
\* day, so a call that returns with -daily_pl at or above
\* max_daily_drawdown times the start-of-day capital leaves the gate
\* halted, also after earlier gains in the same day.
C11_HaltsAtStartOfDayDrawdown ==
    (IsCall("update_daily_pl") /\ ret.exc = "" /\ day_start_capital > 0
         /\ -daily_pl * 100 >= max_daily_drawdown * day_start_capital)
        => daily_limit_reached

\* C12: current_capital is changed by update_daily_pl only; reset_daily_pl
\* leaves current_capital, initial_capital and the four rates unchanged;
\* compute_position_size, check_stop_loss_take_profit and can_trade leave
\* every field of the RiskManager unchanged.
C12_FrameOfTheMethods ==
    [][ /\ current_capital' # current_capital
               => call'.name = "update_daily_pl"
        /\ call'.name = "reset_daily_pl"
               => UNCHANGED <<current_capital, initial_capital,
                              risk_per_trade, max_daily_drawdown,
                              stop_loss_rate, take_profit_rate>>
        /\ call'.name \in {"compute_position_size",
                           "check_stop_loss_take_profit", "can_trade"}
               => UNCHANGED <<initial_capital, current_capital,
                              risk_per_trade, max_daily_drawdown,
                              stop_loss_rate, take_profit_rate, daily_pl,
                              daily_limit_reached>> ]_vars

\* reset_daily_pl was called with a capital that trading had moved away
\* from the initial one, and a day's loss to clear
C12_Witness ==
    /\ IsCall("reset_daily_pl")
    /\ pre.daily_pl < 0
    /\ pre.current_capital # initial_capital
    /\ current_capital = pre.current_capital

\* C13: update_daily_pl is all-or-nothing.  After every call, also one that
\* raised, pnl has been added to both daily_pl and current_capital or to
\* neither, and daily_pl equals the sum of the pnl applied to
\* current_capital since the last reset_daily_pl.
C13_UpdateIsAllOrNothing ==
    /\ IsCall("update_daily_pl")
           => \/ /\ daily_pl = pre.daily_pl + call.a
                 /\ current_capital = pre.current_capital + call.a
              \/ /\ daily_pl = pre.daily_pl
                 /\ current_capital = pre.current_capital
    /\ daily_pl = current_capital - day_start_capital

(***************************************************************************)
(* Properties of generate_trading_signals, checked under SpecTech.         *)
(***************************************************************************)
TechRead == tech_row # <<>>
TechLast == tech_signals[Len(tech_signals)]

\* C8: the signal of a row is the result of the last rule that fires in the
\* order RSI (<30 BUY, >70 SELL), MACD histogram (>0 BUY, <0 SELL),
\* Bollinger (close < lower BUY, close > upper SELL), and HOLD when none
\* fires.
C8_LastFiringRuleDecides ==
    TechRead
        => LET r == tech_row[1]
               rsiBuy == Lt(r.RSI, Num(30))
               rsiSell == Gt(r.RSI, Num(70))
               macdBuy == Gt(r.MACD_HIST, Num(0))
               macdSell == Lt(r.MACD_HIST, Num(0))
               bbBuy == Lt(r.close, r.BB_LOWER)
               bbSell == Gt(r.close, r.BB_UPPER)
               bb == bbBuy \/ bbSell
               macd == macdBuy \/ macdSell
           IN  /\ Len(tech_signals) = tech_i
               /\ bbBuy => TechLast = "BUY"
               /\ bbSell => TechLast = "SELL"
               /\ (~bb /\ macdBuy) => TechLast = "BUY"
               /\ (~bb /\ macdSell) => TechLast = "SELL"
               /\ (~bb /\ ~macd /\ rsiBuy) => TechLast = "BUY"
               /\ (~bb /\ ~macd /\ rsiSell) => TechLast = "SELL"
               /\ (~bb /\ ~macd /\ ~rsiBuy /\ ~rsiSell) => TechLast = "HOLD"

\* RSI 20 and a positive histogram both say BUY, the close above the upper
\* band says SELL, and the signal is SELL
C8_Witness ==
    /\ TechRead
    /\ tech_row[1].RSI = Num(20)
    /\ tech_row[1].MACD_HIST = Num(5)
    /\ Gt(tech_row[1].close, tech_row[1].BB_UPPER)
    /\ TechLast = "SELL"

\* C9: a row whose RSI, MACD histogram or Bollinger band is not-a-number
\* gets no BUY/SELL/HOLD signal: the list of signals is not extended for it.
C9_NaNRowGetsNoSignal ==
    (TechRead /\ (tech_row[1].RSI.nan \/ tech_row[1].MACD_HIST.nan
                      \/ tech_row[1].BB_UPPER.nan \/ tech_row[1].BB_LOWER.nan))
        => Len(tech_signals) < tech_i

(***************************************************************************)
(* Properties of generate_sentiment_signals, checked under SpecSent.       *)
(***************************************************************************)
SentRead == sent_row # <<>>
SentLast == sent_signals[Len(sent_signals)]

\* C10: the sentiment signal is BUY iff label = POSITIVE and confidence >
\* threshold, SELL iff label = NEGATIVE and confidence > threshold, and HOLD
\* otherwise.
C10_SentimentRule ==
    SentRead
        => LET r == sent_row[1]
               strong == r.hf_score > sent_threshold
           IN  /\ SentLast \in {"BUY", "SELL", "HOLD"}
               /\ SentLast = "BUY" <=> (r.hf_label = "POSITIVE" /\ strong)
               /\ SentLast = "SELL" <=> (r.hf_label = "NEGATIVE" /\ strong)
               /\ SentLast = "HOLD"
                      <=> (~strong \/ r.hf_label \notin {"POSITIVE", "NEGATIVE"})

\* a POSITIVE row whose confidence equals the threshold is HOLD
C10_Witness ==
    /\ SentRead
    /\ sent_row[1].hf_label = "POSITIVE"
    /\ sent_row[1].hf_score = sent_threshold
    /\ SentLast = "HOLD"

=============================================================================
